---- MODULE Spec2Model ----
(***************************************************************************)
(* Model of Learning_AnaliticData.py: the Streamlit press-brake predictor. *)
(* A browser session runs main() top to bottom on every interaction; the   *)
(* remote dataset (data_base.xlsx on GitHub) is shared with the other      *)
(* sessions, whose completed saves appear here as appends to the remote.   *)
(* A run is atomic up to its network calls: the upload's GET and PUT are   *)
(* steps of their own, so other writers can act between them.              *)
(* Lengths are in mm, thickness and Y in hundredths of a mm.               *)
(***************************************************************************)
EXTENDS Integers, Sequences, FiniteSets, TLC

\* ------------------------------------------------------------------ bounds
\* Largest number of rows a dataset handed to the upload may have.
MaxFilas == 4

\* ------------------------------------------------------- program constants
\* Config.MODEL_TEST_SIZE = 0.2, as a percentage.
MODEL_TEST_SIZE == 20

\* MaterialConstants.RELACION_H_V: minimum bend length per die opening.
RELACION_H_V == [v \in {6, 8, 12, 15, 20, 26, 37, 50} |->
    CASE v = 6 -> 5 [] v = 8 -> 6 [] v = 12 -> 9 [] v = 15 -> 12
      [] v = 20 -> 15 [] v = 26 -> 18 [] v = 37 -> 25 [] v = 50 -> 36]

\* Bounds of the angle widget st.number_input(min_value=1, max_value=180).

\* columnas_necesarias of validar_dataframe.
columnas_necesarias == {"angulo", "v", "s", "l", "acero", "y"}

\* Python's None for pred_y (a number otherwise) and for parametros (a tuple).
NoneY == 0 - 1
NoneParams == << >>
\* The "sha" entry missing from the request (sha = None).
NoneSha == << >>
\* A cell pandas fills in when a column is missing from one side of a concat.
NaN == 0 - 999

\* pd.DataFrame(): no columns, no rows.
DataFrameVacio == [cols |-> {}, rows |-> << >>]

\* ------------------------------------------------------------ input domains
\* Values of the five input widgets in one rerun: (angulo, v, espesor,
\* longitud, acero) after the RADIO_V_MAP / CALIBRE_MILIMETROS / NOMBRE_ACERO
\* lookups. The angle widget only delivers 1..180; longitud may be 0.
Entradas ==
    { [angulo |-> 90, v |-> 26, espesor |-> 180, longitud |-> 150, acero |-> 10201],
      [angulo |-> 45, v |-> 6,  espesor |-> 80,  longitud |-> 5,   acero |-> 430],
      [angulo |-> 45, v |-> 8,  espesor |-> 100, longitud |-> 5,   acero |-> 304],
      [angulo |-> 90, v |-> 12, espesor |-> 200, longitud |-> 0,   acero |-> 10200] }

\* Values round(prediccion, 2) may take.
PredYs == {9270}

\* Values the human may type into the "angulo_real" and "y_real" widgets.
AngulosReales == {45}
YsReales == {9150}

\* ------------------------------------------------------------- data frames
\* df.empty: no rows or no columns.
Empty(df) == df.cols = {} \/ df.rows = << >>

\* One row of a frame with columns cols taken from the record r.
Fila(cols, r) == [c \in cols |-> r[c]]

\* pd.concat([data, nuevo], ignore_index=True): union of the columns, the
\* cells a side lacks are NaN, the rows of nuevo follow those of data.
Pad(row, cols) == [c \in cols |-> IF c \in DOMAIN row THEN row[c] ELSE NaN]

\* Concat with the rows of nuevo put before those of data.
ConcatAlPrincipio(data, nuevo) ==
    LET cols == data.cols \cup nuevo.cols
    IN  [cols |-> cols,
         rows |-> [i \in 1..(Len(data.rows) + Len(nuevo.rows)) |->
                     IF i <= Len(nuevo.rows) THEN Pad(nuevo.rows[i], cols)
                     ELSE Pad(data.rows[i - Len(nuevo.rows)], cols)]]

Concat(data, nuevo) ==
    LET cols == data.cols \cup nuevo.cols
    IN  [cols |-> cols,
         rows |-> [i \in 1..(Len(data.rows) + Len(nuevo.rows)) |->
                     IF i <= Len(data.rows) THEN Pad(data.rows[i], cols)
                     ELSE Pad(nuevo.rows[i - Len(data.rows)], cols)]]

\* The blob "sha" the contents API reports: a hash of the stored content.
BlobSha(r) == <<"sha", r.cols, r.rows>>

\* ------------------------------------------------------------- UI messages
\* What st.error / st.warning / st.success last wrote in a run: the text and,
\* for "Faltan columnas", the columns it lists.
Msg(t) == [txt |-> t, cols |-> {}]
MsgNinguno == Msg("")
MsgCorrija == Msg("Por favor corrija los errores antes de continuar")
MsgNoCarga == Msg("No se pudieron cargar los datos de entrenamiento")
MsgFaltan(faltantes) == [txt |-> "Error en los datos: Faltan columnas", cols |-> faltantes]
MsgDfVacio == Msg("Error en los datos: El DataFrame esta vacio")
MsgErrorEntrenar == Msg("Error al entrenar el modelo")
MsgNoEntrenado == Msg("El modelo no ha sido entrenado")
MsgErrorPrediccion == Msg("Error en la prediccion")
MsgPrediccion == Msg("Valor Y predicho")
MsgConfirmado == Msg("Resultado confirmado. No se realizaron cambios en la base de datos.")
MsgCorregir == Msg("Ingrese los valores reales medidos")
MsgNoParametros == Msg("No se encontraron los parametros")
MsgArchivoVacio == Msg("El archivo descargado esta vacio")
MsgErrorConexion == Msg("Error de conexion con GitHub")
MsgErrorProcesar == Msg("Error al procesar el archivo")
MsgSubirVacio == Msg("No se puede subir un DataFrame vacio")
MsgSinToken == Msg("Token de GitHub no configurado")
MsgErrorActualizar == Msg("Error al actualizar")
MsgErrorDurante == Msg("Error durante la actualizacion")
MsgActualizado == Msg("Datos actualizados correctamente en GitHub")
MsgRegistrada == Msg("Correccion registrada exitosamente")

\* ----------------------------------------------------------- pure functions
\* validar_parametros without the minimum-length check of lines 170-173.
validar_parametros_sin_hmin(angulo, longitud, espesor, v) ==
    IF angulo <= 0 \/ angulo > 180
    THEN [ok |-> FALSE, msg |-> "El angulo debe estar entre 1 y 180"]
    ELSE IF longitud <= 0
    THEN [ok |-> FALSE, msg |-> "La longitud debe ser mayor a 0 mm"]
    ELSE IF espesor <= 0
    THEN [ok |-> FALSE, msg |-> "El espesor debe ser mayor a 0 mm"]
    ELSE IF v \notin DOMAIN RELACION_H_V
    THEN [ok |-> FALSE, msg |-> "Valor V no valido"]
    ELSE [ok |-> TRUE, msg |-> ""]

\* Validator.validar_parametros: (valido, mensaje).
validar_parametros(angulo, longitud, espesor, v) ==
    IF angulo <= 0 \/ angulo > 180
    THEN [ok |-> FALSE, msg |-> "El angulo debe estar entre 1 y 180"]
    ELSE IF longitud <= 0
    THEN [ok |-> FALSE, msg |-> "La longitud debe ser mayor a 0 mm"]
    ELSE IF espesor <= 0
    THEN [ok |-> FALSE, msg |-> "El espesor debe ser mayor a 0 mm"]
    ELSE IF v \notin DOMAIN RELACION_H_V
    THEN [ok |-> FALSE, msg |-> "Valor V no valido"]
    ELSE IF longitud < RELACION_H_V[v]
    THEN [ok |-> FALSE, msg |-> "La longitud minima para V es h_min"]
    ELSE [ok |-> TRUE, msg |-> ""]

\* validar_dataframe as a check that lets every frame through.
validar_dataframe_siempre(df) == [ok |-> TRUE, msg |-> ""]

\* validar_dataframe comparing the columns for equality instead of inclusion.
validar_dataframe_exacto(df) ==
    IF Empty(df)
    THEN [ok |-> FALSE, msg |-> MsgDfVacio]
    ELSE IF columnas_necesarias # df.cols
    THEN [ok |-> FALSE, msg |-> MsgFaltan(columnas_necesarias \ df.cols)]
    ELSE [ok |-> TRUE, msg |-> MsgNinguno]

\* Validator.validar_dataframe: (valido, mensaje); the message carries the
\* set difference columnas_necesarias - set(df.columns).
validar_dataframe(df) ==
    IF Empty(df)
    THEN [ok |-> FALSE, msg |-> MsgDfVacio]
    ELSE IF ~(columnas_necesarias \subseteq df.cols)
    THEN [ok |-> FALSE, msg |-> MsgFaltan(columnas_necesarias \ df.cols)]
    ELSE [ok |-> TRUE, msg |-> MsgNinguno]

\* obtener_datos_github as a download that keeps the frame of an earlier
\* call and returns it whatever the remote file holds now.
obtener_datos_github_cache(rem, fallo) ==
    [data |-> [cols |-> columnas_necesarias,
               rows |-> << [angulo |-> 90, v |-> 26, s |-> 180, l |-> 150,
                            acero |-> 10201, y |-> 9270],
                           [angulo |-> 45, v |-> 6, s |-> 80, l |-> 50,
                            acero |-> 430, y |-> 8800] >>],
     msg |-> MsgNinguno]

\* DataManager.obtener_datos_github against the remote object rem. fallo is
\* what the download does: "no" (it answers), "conexion" (a
\* requests.RequestException), "otro" (any other exception). A missing
\* object makes read_excel raise. Returns the frame and the message shown.
obtener_datos_github(rem, fallo) ==
    IF fallo = "conexion"
    THEN [data |-> DataFrameVacio, msg |-> MsgErrorConexion]
    ELSE IF fallo = "otro" \/ ~rem.existe
    THEN [data |-> DataFrameVacio, msg |-> MsgErrorProcesar]
    ELSE IF Empty([cols |-> rem.cols, rows |-> rem.rows])
    THEN [data |-> DataFrameVacio, msg |-> MsgArchivoVacio]
    ELSE [data |-> [cols |-> rem.cols, rows |-> rem.rows], msg |-> MsgNinguno]

\* train_test_split(test_size=0.2): n_test = ceil(0.2 n), n_train = n - n_test;
\* it raises when the training part would be empty.
NTest(n) == (n * MODEL_TEST_SIZE + 99) \div 100

\* ModeloPredictor.entrenar: TRUE when nothing raised. excepcion is whether
\* fit / predict / the metrics raise on this data.
entrenar(data, excepcion) ==
    /\ columnas_necesarias \subseteq data.cols
    /\ Len(data.rows) - NTest(Len(data.rows)) > 0
    /\ ~excepcion

\* ModeloPredictor.__init__: the three attributes of a new object.
ModeloPredictor == [pipeline |-> "None", mae |-> NoneY, r2 |-> NoneY]

\* ModeloPredictor.entrenar on the object self: what it returns and the
\* object afterwards. data[...] raises on a missing column (lines 203-204,
\* before self.pipeline is assigned at line 216); train_test_split raises on
\* an empty training part (line 221) and falla = "fit" is fit raising (line
\* 225), both with the new, unfitted Pipeline already in self.pipeline;
\* "predict_test" is line 228 raising, "r2" line 230 raising, after the fit.
entrenar_self(self, data, falla) ==
    IF ~(columnas_necesarias \subseteq data.cols)
    THEN [ok |-> FALSE, self |-> self]
    ELSE IF Len(data.rows) - NTest(Len(data.rows)) <= 0 \/ falla = "fit"
    THEN [ok |-> FALSE, self |-> [self EXCEPT !.pipeline = "sin_ajustar"]]
    ELSE IF falla = "predict_test"
    THEN [ok |-> FALSE, self |-> [self EXCEPT !.pipeline = "ajustado"]]
    ELSE IF falla = "r2"
    THEN [ok |-> FALSE, self |-> [self EXCEPT !.pipeline = "ajustado", !.mae = 1]]
    ELSE [ok |-> TRUE, self |-> [pipeline |-> "ajustado", mae |-> 1, r2 |-> 1]]

\* ModeloPredictor.predecir on the object self (lines 238-258): the value
\* returned (NoneY for None) and the error written. An unfitted Pipeline
\* raises in predict; excepcion is predict raising on a fitted one.
predecir(self, excepcion) ==
    IF self.pipeline = "None"
    THEN [y |-> NoneY, msg |-> MsgNoEntrenado]
    ELSE IF self.pipeline = "sin_ajustar" \/ excepcion
    THEN [y |-> NoneY, msg |-> MsgErrorPrediccion]
    ELSE [y |-> 9270, msg |-> MsgNinguno]

\* ------------------------------------------------------------------- state
VARIABLES
    remote,          \* the object data_base.xlsx on GitHub: existe, cols, rows
    GITHUB_TOKEN,    \* Config.GITHUB_TOKEN is set (read once from the environment)
    mostrar_botones, \* st.session_state.mostrar_botones
    accion,          \* st.session_state.accion: "None", "confirmar", "corregir"
    pred_y,          \* st.session_state.pred_y
    parametros,      \* st.session_state.parametros
    angulo_real,     \* st.session_state["angulo_real"], the keyed widget
    y_real,          \* st.session_state["y_real"], the keyed widget
    pc,              \* where the run is: "idle", "get_sha", "put"
    df_subir,        \* subir_datos_github's argument df while it runs
    sha,             \* subir_datos_github's local sha
    token_lectura,   \* the blob sha of the content the run's fetch returned
    ui,              \* the messages the last run wrote, in order
    paso,            \* the last step taken: the button or edit that started a
                     \* run, a request of the upload, or another session's save
    llamadas,        \* what the last run called, by kind: the three network
                     \* requests and ModeloPredictor.entrenar
    escritos,        \* PUTs the remote applied for the current prediction
    fallo_persist,   \* a save of the current prediction has failed
    fn_in,           \* arguments of the functions under test (SpecFn)
    fn_out           \* their results (SpecFn)

vars == <<remote, GITHUB_TOKEN, mostrar_botones, accion, pred_y, parametros,
          angulo_real, y_real, pc, df_subir, sha, token_lectura, ui, paso, llamadas,
          escritos, fallo_persist, fn_in, fn_out>>

sesion_vars == <<mostrar_botones, accion, pred_y, parametros>>
subir_vars == <<pc, df_subir, sha, token_lectura>>
fn_vars == <<fn_in, fn_out>>

\* Rows the remote file may hold at the start.
FilaBase1 == [angulo |-> 90, v |-> 26, s |-> 180, l |-> 150, acero |-> 10201,
              y |-> 9270, nota |-> 0]
FilaBase2 == [angulo |-> 45, v |-> 6, s |-> 80, l |-> 50, acero |-> 430,
              y |-> 8800, nota |-> 0]
\* The row another session saves.
FilaOtra == [angulo |-> 120, v |-> 12, s |-> 100, l |-> 80, acero |-> 304,
             y |-> 9010]

Remoto(cols, filas) ==
    [existe |-> TRUE, cols |-> cols,
     rows |-> [i \in 1..Len(filas) |-> Fila(cols, filas[i])]]

RemotoAusente == [existe |-> FALSE, cols |-> {}, rows |-> << >>]

\* The remote file at the start: two rows under any set of columns (the six
\* required ones, some of them missing, an extra one), a file too short to
\* split, a file without rows, or no file.
RemotosIniciales ==
    { Remoto(cols, <<FilaBase1, FilaBase2>>) :
        cols \in SUBSET (columnas_necesarias \cup {"nota"}) }
    \cup { Remoto(columnas_necesarias, <<FilaBase1>>),
           Remoto(columnas_necesarias, << >>),
           RemotoAusente }

SinLlamadas == [fetch |-> 0, sha |-> 0, put |-> 0, entrenar |-> 0]

\* inicializar_sesion on a fresh session, and no run in progress.
InitSesion ==
    /\ mostrar_botones = FALSE
    /\ accion = "None"
    /\ pred_y = NoneY
    /\ parametros = NoneParams
    /\ angulo_real = NoneY
    /\ y_real = NoneY
    /\ pc = "idle"
    /\ df_subir = DataFrameVacio
    /\ sha = NoneSha
    /\ token_lectura = NoneSha
    /\ ui = << >>
    /\ paso = "inicio"
    /\ llamadas = SinLlamadas
    /\ escritos = 0
    /\ fallo_persist = FALSE

\* No function is under test.
SinFuncion == [f |-> "ninguna"]

Init ==
    /\ remote \in RemotosIniciales
    /\ GITHUB_TOKEN \in BOOLEAN
    /\ InitSesion
    /\ fn_in = SinFuncion
    /\ fn_out = SinFuncion

\* ----------------------------------------------------------------- main()
\* Lines 625-627: the correction block's warning, written when accion is
\* "corregir" at that point of the run.
Bloque(acc) == IF acc = "corregir" THEN <<MsgCorregir>> ELSE << >>

\* GuardarEnSesion without the assignment of line 583.
GuardarEnSesionSinParametros(e, y) ==
    /\ pred_y' = y
    /\ parametros' = parametros
    /\ mostrar_botones' = TRUE

\* Lines 581-584: a prediction y for the widget values e is kept in the
\* session.
GuardarEnSesion(e, y) ==
    /\ pred_y' = y
    /\ parametros' = <<e.angulo, e.v, e.espesor, e.longitud, e.acero>>
    /\ mostrar_botones' = TRUE

\* Stop as a handler that also hides the decision buttons.
StopReinicia(msgs, n, m) ==
    /\ ui' = msgs
    /\ llamadas' = [SinLlamadas EXCEPT !.fetch = n, !.entrenar = m]
    /\ mostrar_botones' = FALSE
    /\ UNCHANGED <<pred_y, parametros, escritos, fallo_persist>>

\* A run of the predict button ends without a prediction (st.stop()), having
\* written msgs after n fetches and m calls of entrenar.
Stop(msgs, n, m) ==
    /\ ui' = msgs
    /\ llamadas' = [SinLlamadas EXCEPT !.fetch = n, !.entrenar = m]
    /\ UNCHANGED <<pred_y, parametros, mostrar_botones, escritos, fallo_persist>>

\* Lines 552-606, the predict button, in a run with widget values e. fallo is
\* what the download does, excepcion whether training raises, y what predecir
\* returns (NoneY: it raised).
PresionarPredecir ==
    /\ pc = "idle"
    /\ paso' = "predecir"
    /\ \E e \in Entradas :
         LET val == validar_parametros(e.angulo, e.longitud, e.espesor, e.v)
         IN  IF ~val.ok
             THEN Stop(<<Msg(val.msg), MsgCorrija>>, 0, 0)
             ELSE \E fallo \in {"no", "conexion", "otro"} :
                    LET got == obtener_datos_github(remote, fallo)
                        vdf == validar_dataframe(got.data)
                    IN  IF Empty(got.data)
                        THEN Stop(<<got.msg, MsgNoCarga>>, 1, 0)
                        ELSE IF ~vdf.ok
                        THEN Stop(<<vdf.msg>>, 1, 0)
                        ELSE \E excepcion \in BOOLEAN :
                               IF ~entrenar(got.data, excepcion)
                               THEN Stop(<<MsgErrorEntrenar>>, 1, 1)
                               ELSE \E y \in PredYs \cup {NoneY} :
                                      IF y = NoneY
                                      THEN Stop(<<MsgErrorPrediccion>>, 1, 1)
                                      ELSE /\ GuardarEnSesion(e, y)
                                           /\ ui' = <<MsgPrediccion>> \o Bloque(accion)
                                           /\ llamadas' = [SinLlamadas EXCEPT !.fetch = 1, !.entrenar = 1]
                                           /\ escritos' = 0
                                           /\ fallo_persist' = FALSE
    /\ UNCHANGED <<remote, GITHUB_TOKEN, accion, angulo_real, y_real,
                   subir_vars, fn_vars>>

\* nuevo_dato with espesor_orig and longitud_orig crossed over.
nuevo_dato_cruzado(params, nuevo_angulo, nuevo_y) ==
    [cols |-> columnas_necesarias,
     rows |-> << [angulo |-> nuevo_angulo, v |-> params[2], s |-> params[4],
                  l |-> params[3], acero |-> params[5], y |-> nuevo_y] >>]

\* Lines 655-664: the one-row frame nuevo_dato built from the stored
\* parametros and the two correction widgets.
nuevo_dato(params, nuevo_angulo, nuevo_y) ==
    [cols |-> columnas_necesarias,
     rows |-> << [angulo |-> nuevo_angulo, v |-> params[2], s |-> params[3],
                  l |-> params[4], acero |-> params[5], y |-> nuevo_y] >>]

\* The confirm button as a handler that also writes the prediction to the
\* remote file as a new row.
PresionarConfirmarPersiste ==
    /\ pc = "idle"
    /\ paso' = "confirmar"
    /\ mostrar_botones
    /\ accion' = "confirmar"
    /\ mostrar_botones' = FALSE
    /\ angulo_real' = NoneY
    /\ y_real' = NoneY
    /\ ui' = <<MsgConfirmado>>
    /\ llamadas' = SinLlamadas
    /\ remote' = IF remote.existe /\ Len(remote.rows) < MaxFilas
                 THEN [remote EXCEPT !.rows =
                         Concat([cols |-> remote.cols, rows |-> remote.rows],
                                nuevo_dato(parametros, parametros[1], pred_y)).rows]
                 ELSE remote
    /\ UNCHANGED <<GITHUB_TOKEN, pred_y, parametros, subir_vars,
                   escritos, fallo_persist, fn_vars>>

\* Lines 615-618, the confirm button: rendered only while mostrar_botones.
\* The correction block is not rendered in this run, so its widgets go.
PresionarConfirmar ==
    /\ pc = "idle"
    /\ paso' = "confirmar"
    /\ mostrar_botones
    /\ accion' = "confirmar"
    /\ mostrar_botones' = FALSE
    /\ angulo_real' = NoneY
    /\ y_real' = NoneY
    /\ ui' = <<MsgConfirmado>>
    /\ llamadas' = SinLlamadas
    /\ UNCHANGED <<remote, GITHUB_TOKEN, pred_y, parametros, subir_vars,
                   escritos, fallo_persist, fn_vars>>

\* value= of the "y_real" widget, line 645.
DefectoY(py) == IF py # NoneY /\ py # 0 THEN py ELSE 0

\* Lines 621-648, the correct button: accion becomes "corregir" and the two
\* keyed widgets appear with their defaults, the angle widget's value and
\* pred_y.
PresionarCorregir ==
    /\ pc = "idle"
    /\ paso' = "corregir"
    /\ mostrar_botones
    /\ \E a \in {e.angulo : e \in Entradas} :
         angulo_real' = IF accion = "corregir" THEN angulo_real ELSE a
    /\ y_real' = IF accion = "corregir" THEN y_real ELSE DefectoY(pred_y)
    /\ accion' = "corregir"
    /\ ui' = <<MsgCorregir>>
    /\ llamadas' = SinLlamadas
    /\ UNCHANGED <<remote, GITHUB_TOKEN, mostrar_botones, pred_y, parametros,
                   subir_vars, escritos, fallo_persist, fn_vars>>

\* The human edits a correction widget (lines 631-648); the rerun that
\* follows presses no button.
EditarCorreccion ==
    /\ pc = "idle"
    /\ paso' = "editar"
    /\ accion = "corregir"
    /\ \E a \in AngulosReales \cup {angulo_real}, yr \in YsReales \cup {y_real} :
         /\ angulo_real' = a
         /\ y_real' = yr
    /\ ui' = <<MsgCorregir>>
    /\ llamadas' = SinLlamadas
    /\ UNCHANGED <<remote, GITHUB_TOKEN, sesion_vars, subir_vars, escritos,
                   fallo_persist, fn_vars>>

\* Rerun as a run that, while the correction block is shown, writes the
\* correction to the remote file without the save button.
RerunGuarda ==
    /\ pc = "idle"
    /\ paso' = "rerun"
    /\ ui' = Bloque(accion)
    /\ llamadas' = SinLlamadas
    /\ remote' = IF /\ accion = "corregir" /\ parametros # NoneParams
                    /\ remote.existe /\ Len(remote.rows) < MaxFilas
                 THEN [remote EXCEPT !.rows =
                         Concat([cols |-> remote.cols, rows |-> remote.rows],
                                nuevo_dato(parametros, angulo_real, y_real)).rows]
                 ELSE remote
    /\ UNCHANGED <<GITHUB_TOKEN, sesion_vars, angulo_real, y_real,
                   subir_vars, escritos, fallo_persist, fn_vars>>

\* Rerun as a run whose inicializar_sesion assigns its defaults without
\* looking at what the session already holds.
RerunInicializa ==
    /\ pc = "idle"
    /\ paso' = "rerun"
    /\ ui' = << >>
    /\ llamadas' = SinLlamadas
    /\ mostrar_botones' = FALSE
    /\ accion' = "None"
    /\ pred_y' = NoneY
    /\ parametros' = NoneParams
    /\ UNCHANGED <<remote, GITHUB_TOKEN, angulo_real, y_real,
                   subir_vars, escritos, fallo_persist, fn_vars>>

\* A rerun in which no button is pressed (an input widget was edited).
Rerun ==
    /\ pc = "idle"
    /\ paso' = "rerun"
    /\ ui' = Bloque(accion)
    /\ llamadas' = SinLlamadas
    /\ UNCHANGED <<remote, GITHUB_TOKEN, sesion_vars, angulo_real, y_real,
                   subir_vars, escritos, fallo_persist, fn_vars>>

\* subir_datos_github has returned: its locals are gone.
FinSubir ==
    /\ pc' = "idle"
    /\ df_subir' = DataFrameVacio
    /\ sha' = NoneSha
    /\ token_lectura' = NoneSha

\* The save did not persist: main() leaves the session as it is.
NoGuardado(msgs) ==
    /\ ui' = msgs
    /\ fallo_persist' = TRUE
    /\ UNCHANGED <<mostrar_botones, accion, angulo_real, y_real>>

\* PresionarGuardar with a subir_datos_github that does not look at
\* Config.GITHUB_TOKEN before its requests.
PresionarGuardarSinControl ==
    /\ pc = "idle"
    /\ paso' = "guardar"
    /\ accion = "corregir"
    /\ IF parametros = NoneParams
       THEN /\ ui' = <<MsgCorregir, MsgNoParametros>>
            /\ llamadas' = SinLlamadas
            /\ UNCHANGED <<subir_vars, fallo_persist>>
       ELSE \E fallo \in {"no", "conexion", "otro"} :
              LET got == obtener_datos_github(remote, fallo)
                  df == Concat(got.data, nuevo_dato(parametros, angulo_real, y_real))
              IN  /\ Len(got.data.rows) < MaxFilas
                  /\ llamadas' = [SinLlamadas EXCEPT !.fetch = 1]
                  /\ IF Empty(got.data)
                     THEN /\ ui' = <<MsgCorregir, got.msg>>
                          /\ fallo_persist' = TRUE
                          /\ UNCHANGED subir_vars
                     ELSE IF Empty(df)
                     THEN /\ ui' = <<MsgCorregir, MsgSubirVacio>>
                          /\ fallo_persist' = TRUE
                          /\ UNCHANGED subir_vars
                     ELSE /\ ui' = <<MsgCorregir>>
                          /\ pc' = "get_sha"
                          /\ df_subir' = df
                          /\ token_lectura' = BlobSha(got.data)
                          /\ UNCHANGED <<sha, fallo_persist>>
    /\ UNCHANGED <<remote, GITHUB_TOKEN, sesion_vars, angulo_real, y_real,
                   escritos, fn_vars>>

\* PresionarGuardar without the test of data.empty at line 667: the new row
\* is uploaded on top of whatever the fetch returned.
PresionarGuardarSinBase ==
    /\ pc = "idle"
    /\ paso' = "guardar"
    /\ accion = "corregir"
    /\ IF parametros = NoneParams
       THEN /\ ui' = <<MsgCorregir, MsgNoParametros>>
            /\ llamadas' = SinLlamadas
            /\ UNCHANGED <<subir_vars, fallo_persist>>
       ELSE \E fallo \in {"no", "conexion", "otro"} :
              LET got == obtener_datos_github(remote, fallo)
                  df == Concat(got.data, nuevo_dato(parametros, angulo_real, y_real))
              IN  /\ Len(got.data.rows) < MaxFilas
                  /\ llamadas' = [SinLlamadas EXCEPT !.fetch = 1]
                  /\ IF Empty(df)
                     THEN /\ ui' = <<MsgCorregir, MsgSubirVacio>>
                          /\ fallo_persist' = TRUE
                          /\ UNCHANGED subir_vars
                     ELSE IF ~GITHUB_TOKEN
                     THEN /\ ui' = <<MsgCorregir, MsgSinToken>>
                          /\ fallo_persist' = TRUE
                          /\ UNCHANGED subir_vars
                     ELSE /\ ui' = <<MsgCorregir>>
                          /\ pc' = "get_sha"
                          /\ df_subir' = df
                          /\ token_lectura' = BlobSha(got.data)
                          /\ UNCHANGED <<sha, fallo_persist>>
    /\ UNCHANGED <<remote, GITHUB_TOKEN, sesion_vars, angulo_real, y_real,
                   escritos, fn_vars>>

\* Lines 650-670 and 106-120, the save button up to the first request of
\* subir_datos_github: fetch, concat, and the two early returns of the upload.
PresionarGuardar ==
    /\ pc = "idle"
    /\ paso' = "guardar"
    /\ accion = "corregir"
    /\ IF parametros = NoneParams
       THEN /\ ui' = <<MsgCorregir, MsgNoParametros>>
            /\ llamadas' = SinLlamadas
            /\ UNCHANGED <<subir_vars, fallo_persist>>
       ELSE \E fallo \in {"no", "conexion", "otro"} :
              LET got == obtener_datos_github(remote, fallo)
                  df == Concat(got.data, nuevo_dato(parametros, angulo_real, y_real))
              IN  /\ Len(got.data.rows) < MaxFilas
                  /\ llamadas' = [SinLlamadas EXCEPT !.fetch = 1]
                  /\ IF Empty(got.data)
                     THEN /\ ui' = <<MsgCorregir, got.msg>>
                          /\ fallo_persist' = TRUE
                          /\ UNCHANGED subir_vars
                     ELSE IF Empty(df)
                     THEN /\ ui' = <<MsgCorregir, MsgSubirVacio>>
                          /\ fallo_persist' = TRUE
                          /\ UNCHANGED subir_vars
                     ELSE IF ~GITHUB_TOKEN
                     THEN /\ ui' = <<MsgCorregir, MsgSinToken>>
                          /\ fallo_persist' = TRUE
                          /\ UNCHANGED subir_vars
                     ELSE /\ ui' = <<MsgCorregir>>
                          /\ pc' = "get_sha"
                          /\ df_subir' = df
                          /\ token_lectura' = BlobSha(got.data)
                          /\ UNCHANGED <<sha, fallo_persist>>
    /\ UNCHANGED <<remote, GITHUB_TOKEN, sesion_vars, angulo_real, y_real,
                   escritos, fn_vars>>

\* Lines 122-127: GET of the contents API for the current sha. resp is the
\* answer: "200" (only when the object exists), "otro" (any other status,
\* sha = None) or "excepcion" (timeout, connection error: return False).
LeerSha ==
    /\ pc = "get_sha"
    /\ paso' = "leer_sha"
    /\ llamadas' = [llamadas EXCEPT !.sha = @ + 1]
    /\ \E resp \in {"200", "otro", "excepcion"} :
         \/ /\ resp = "200"
            /\ remote.existe
            /\ sha' = BlobSha(remote)
            /\ pc' = "put"
            /\ UNCHANGED <<df_subir, token_lectura, ui, fallo_persist>>
         \/ /\ resp = "otro"
            /\ sha' = NoneSha
            /\ pc' = "put"
            /\ UNCHANGED <<df_subir, token_lectura, ui, fallo_persist>>
         \/ /\ resp = "excepcion"
            /\ ui' = ui \o <<MsgErrorDurante>>
            /\ fallo_persist' = TRUE
            /\ FinSubir
    /\ UNCHANGED <<remote, GITHUB_TOKEN, sesion_vars, angulo_real, y_real,
                   escritos, fn_vars>>

\* The contents API's side of the PUT of line 138: an existing object is
\* replaced only when the request's sha is the object's current blob sha; a
\* missing object is created by a request without sha.
GitHubAcepta(rem, sha_enviado) ==
    IF rem.existe THEN sha_enviado = BlobSha(rem) ELSE sha_enviado = NoneSha

\* Put as an upload that, when GitHub rejects the PUT, goes back to read the
\* sha and sends the PUT again.
PutReintenta ==
    /\ pc = "put"
    /\ paso' = "put"
    /\ llamadas' = [llamadas EXCEPT !.put = @ + 1]
    /\ \E entrega \in {"respuesta", "no_llega", "sin_respuesta"} :
         LET acepta == GitHubAcepta(remote, sha)
             aplicado == entrega # "no_llega" /\ acepta
         IN  /\ remote' = IF aplicado
                          THEN [existe |-> TRUE, cols |-> df_subir.cols,
                                rows |-> df_subir.rows]
                          ELSE remote
             /\ escritos' = IF aplicado THEN escritos + 1 ELSE escritos
             /\ IF entrega = "respuesta" /\ acepta
                THEN /\ ui' = ui \o <<MsgActualizado, MsgRegistrada>>
                     /\ mostrar_botones' = FALSE
                     /\ accion' = "None"
                     /\ angulo_real' = NoneY
                     /\ y_real' = NoneY
                     /\ UNCHANGED fallo_persist
                     /\ FinSubir
                ELSE IF entrega = "respuesta" /\ llamadas.put = 0
                THEN /\ pc' = "get_sha"
                     /\ sha' = NoneSha
                     /\ UNCHANGED <<df_subir, token_lectura, ui, fallo_persist,
                                    mostrar_botones, accion, angulo_real, y_real>>
                ELSE /\ NoGuardado(ui \o <<MsgErrorDurante>>)
                     /\ FinSubir
    /\ UNCHANGED <<GITHUB_TOKEN, pred_y, parametros, fn_vars>>

\* Lines 129-149 and 670-674: the PUT and what follows it. entrega is what
\* happens to the request: "respuesta" (the answer arrives), "no_llega" (the
\* request raises before it reaches GitHub), "sin_respuesta" (GitHub handled
\* it and the answer is lost or times out, so requests.put raises).
Put ==
    /\ pc = "put"
    /\ paso' = "put"
    /\ llamadas' = [llamadas EXCEPT !.put = @ + 1]
    /\ \E entrega \in {"respuesta", "no_llega", "sin_respuesta"} :
         LET acepta == GitHubAcepta(remote, sha)
             aplicado == entrega # "no_llega" /\ acepta
         IN  /\ remote' = IF aplicado
                          THEN [existe |-> TRUE, cols |-> df_subir.cols,
                                rows |-> df_subir.rows]
                          ELSE remote
             /\ escritos' = IF aplicado THEN escritos + 1 ELSE escritos
             /\ IF entrega = "respuesta" /\ acepta
                THEN /\ ui' = ui \o <<MsgActualizado, MsgRegistrada>>
                     /\ mostrar_botones' = FALSE
                     /\ accion' = "None"
                     /\ angulo_real' = NoneY
                     /\ y_real' = NoneY
                     /\ UNCHANGED fallo_persist
                ELSE NoGuardado(ui \o <<IF entrega = "respuesta"
                                        THEN MsgErrorActualizar
                                        ELSE MsgErrorDurante>>)
    /\ FinSubir
    /\ UNCHANGED <<GITHUB_TOKEN, pred_y, parametros, fn_vars>>

\* Another session saves a correction of its own (it had a prediction, so
\* the file was well formed): its fetch, GET and PUT ran with nothing in
\* between, so its row is appended to the remote rows.
OtraSesionGuarda ==
    /\ remote.existe
    /\ ~Empty([cols |-> remote.cols, rows |-> remote.rows])
    /\ columnas_necesarias \subseteq remote.cols
    /\ Len(remote.rows) < MaxFilas
    /\ remote' = [remote EXCEPT !.rows =
           Concat([cols |-> remote.cols, rows |-> remote.rows],
                  [cols |-> columnas_necesarias, rows |-> <<FilaOtra>>]).rows]
    /\ paso' = "otra_sesion"
    /\ UNCHANGED <<GITHUB_TOKEN, sesion_vars, angulo_real, y_real, subir_vars,
                   ui, llamadas, escritos, fallo_persist, fn_vars>>

Next ==
    \/ PresionarPredecir
    \/ PresionarConfirmar
    \/ PresionarCorregir
    \/ EditarCorreccion
    \/ Rerun
    \/ PresionarGuardar
    \/ LeerSha
    \/ Put
    \/ OtraSesionGuarda

Spec == Init /\ [][Next]_vars

\* ------------------------------------------------- the functions on their own
\* Arguments validar_parametros is tried on: both sides of each comparison.
ArgsValidar ==
    [f : {"validar_parametros"}, angulo : {0, 1, 180, 181},
     longitud : {0, 4, 5, 6, 17, 18, 19}, espesor : {0, 80}, v : {6, 7, 26}]

\* Two downloads side by side, each a remote object and what the download does.
Descargas ==
    [rem : {Remoto(columnas_necesarias, <<FilaBase1, FilaBase2>>),
            Remoto(columnas_necesarias, << >>), RemotoAusente},
     fallo : {"no", "conexion", "otro"}]

ArgsObtener == [f : {"obtener_datos_github"}, a : Descargas, b : Descargas]

\* A ModeloPredictor, new or already trained once, on which entrenar is
\* called with data and predecir afterwards.
ArgsModelo ==
    [f : {"ModeloPredictor"}, previo : BOOLEAN,
     data : {[cols |-> columnas_necesarias,
              rows |-> <<Fila(columnas_necesarias, FilaBase1),
                         Fila(columnas_necesarias, FilaBase2)>>],
             [cols |-> columnas_necesarias,
              rows |-> <<Fila(columnas_necesarias, FilaBase1)>>],
             [cols |-> columnas_necesarias \ {"y"},
              rows |-> <<Fila(columnas_necesarias \ {"y"}, FilaBase1),
                         Fila(columnas_necesarias \ {"y"}, FilaBase2)>>]},
     falla : {"no", "fit", "predict_test", "r2"},
     excepcion : BOOLEAN]

InitFn ==
    /\ remote = Remoto(columnas_necesarias, <<FilaBase1, FilaBase2>>)
    /\ GITHUB_TOKEN = TRUE
    /\ InitSesion
    /\ \/ fn_in \in ArgsValidar
       \/ fn_in \in ArgsObtener
       \/ fn_in \in ArgsModelo
    /\ fn_out = SinFuncion

FnValidarParametros ==
    /\ fn_in.f = "validar_parametros"
    /\ fn_out.f = "ninguna"
    /\ fn_out' = [f |-> fn_in.f,
                  r |-> validar_parametros(fn_in.angulo, fn_in.longitud,
                                           fn_in.espesor, fn_in.v)]
    /\ UNCHANGED <<remote, GITHUB_TOKEN, sesion_vars, angulo_real, y_real,
                   subir_vars, ui, paso, llamadas, escritos, fallo_persist, fn_in>>

FnObtenerDatos ==
    /\ fn_in.f = "obtener_datos_github"
    /\ fn_out.f = "ninguna"
    /\ fn_out' = [f |-> fn_in.f,
                  a |-> obtener_datos_github(fn_in.a.rem, fn_in.a.fallo),
                  b |-> obtener_datos_github(fn_in.b.rem, fn_in.b.fallo)]
    /\ UNCHANGED <<remote, GITHUB_TOKEN, sesion_vars, angulo_real, y_real,
                   subir_vars, ui, paso, llamadas, escritos, fallo_persist, fn_in>>

FnModelo ==
    /\ fn_in.f = "ModeloPredictor"
    /\ fn_out.f = "ninguna"
    /\ LET antes == IF fn_in.previo
                    THEN [pipeline |-> "ajustado", mae |-> 2, r2 |-> 2]
                    ELSE ModeloPredictor
           r == entrenar_self(antes, fn_in.data, fn_in.falla)
       IN  fn_out' = [f |-> fn_in.f, antes |-> antes, r |-> r,
                      pred |-> predecir(r.self, fn_in.excepcion)]
    /\ UNCHANGED <<remote, GITHUB_TOKEN, sesion_vars, angulo_real, y_real,
                   subir_vars, ui, paso, llamadas, escritos, fallo_persist, fn_in>>

NextFn == FnValidarParametros \/ FnObtenerDatos \/ FnModelo

SpecFn == InitFn /\ [][NextFn]_vars

\* ------------------------------------------------------------------ claims
Ultimo(q) == q[Len(q)]
Mensajes(q) == {q[i] : i \in 1..Len(q)}
EsPrefijo(a, b) == Len(a) <= Len(b) /\ \A i \in 1..Len(a) : a[i] = b[i]

\* The remote file can be trained on: it exists, has rows and has the six
\* required columns.
DatasetValido(rem) ==
    rem.existe /\ rem.rows # << >> /\ columnas_necesarias \subseteq rem.cols

\* C1 (as claimed): a PUT of a run whose fetch saw another version of the
\* file than the one now stored fails and leaves the remote file as the
\* intervening writer left it.
C1_EscrituraObsoletaFalla ==
    [][(paso' = "put" /\ token_lectura # BlobSha(remote))
         => (remote' = remote /\ MsgRegistrada \notin Mensajes(ui'))]_vars

\* C2 (as claimed): the remote rows only grow at the end: every step leaves
\* the rows stored before it as a prefix of the rows stored after it.
C2_SoloAnexa ==
    [][remote.existe => (remote'.existe /\ EsPrefijo(remote.rows, remote'.rows))]_vars

C4_FilaCorreccion ==
    [][(paso' = "put" /\ remote' # remote)
         => /\ remote'.rows # << >>
            /\ LET f == Ultimo(remote'.rows)
               IN  /\ columnas_necesarias \subseteq DOMAIN f
                   /\ \A c \in columnas_necesarias : f[c] # NaN
                   /\ f.y = y_real
                   /\ f.v = parametros[2] /\ f.s = parametros[3]
                   /\ f.l = parametros[4] /\ f.acero = parametros[5]]_vars

\* A correction was saved whose y is the human's value and not the predicted
\* one.
C4_Witness ==
    /\ paso = "put" /\ MsgRegistrada \in Mensajes(ui)
    /\ remote.rows # << >>
    /\ Ultimo(remote.rows).y \in YsReales
    /\ Ultimo(remote.rows).y # pred_y
    /\ Ultimo(remote.rows).v = parametros[2]

\* C5: a press of the predict button that validar_parametros rejects makes no
\* network call, trains nothing and leaves the session state and the remote
\* file as they were.
C5_InvalidoSinEfectos ==
    [][(paso' = "predecir" /\ MsgCorrija \in Mensajes(ui'))
         => /\ llamadas' = SinLlamadas
            /\ remote' = remote
            /\ UNCHANGED <<mostrar_botones, accion, pred_y, parametros>>]_vars

\* The predict button was pressed with invalid inputs while an earlier
\* prediction awaited its correction: the session still holds it.
C5_Witness ==
    /\ paso = "predecir" /\ MsgCorrija \in Mensajes(ui)
    /\ llamadas = SinLlamadas
    /\ mostrar_botones /\ accion = "corregir" /\ pred_y \in PredYs

SinDatos(d) == d.fallo = "no" /\ (~d.rem.existe \/ d.rem.rows = << >>)
\* The download raised: the remote was not reached or the file not read.
Inalcanzable(d) == d.fallo # "no"

\* C8 (as claimed): obtener_datos_github returns different values for a
\* dataset without rows (or without backing object) and for a download that
\* failed.
C8_Distinguibles ==
    ( /\ fn_out.f = "obtener_datos_github"
      /\ SinDatos(fn_in.a)
      /\ Inalcanzable(fn_in.b) )
      => fn_out.a.data # fn_out.b.data

\* C9 (as claimed): the remote file applies at most one PUT for a prediction.
C9_UnaEscrituraPorPrediccion == escritos <= 1

\* C10 (as claimed): once a save of the current prediction has failed, no
\* upload of it is under way again.
C10_FalloTerminal == fallo_persist => pc = "idle"

\* The error messages a save can write.
ErroresGuardar ==
    {MsgNoParametros, MsgArchivoVacio, MsgErrorConexion, MsgErrorProcesar,
     MsgSubirVacio, MsgSinToken, MsgErrorActualizar, MsgErrorDurante}

\* The steps of a save: the button's run up to the first request, the GET of
\* the sha, the PUT.
PasosGuardar == {"guardar", "leer_sha", "put"}

\* C11: a run makes at most one fetch, one GET of the sha and one PUT; the
\* GET is followed by the PUT or by the end of the save, the PUT by the end
\* of the save whatever its outcome, never by another fetch or GET; and a
\* save that ends without having registered the correction has written an
\* error message.
C11_SinReintento ==
    [][/\ llamadas'.fetch <= 1 /\ llamadas'.sha <= 1 /\ llamadas'.put <= 1
       /\ paso' = "leer_sha" => pc' \in {"put", "idle"}
       /\ paso' = "put" => pc' = "idle"
       /\ ( /\ paso' \in PasosGuardar
            /\ pc' = "idle"
            /\ MsgRegistrada \notin Mensajes(ui') )
            => Mensajes(ui') \cap ErroresGuardar # {}]_vars

\* A save whose PUT GitHub rejected has ended after one fetch, one GET and
\* one PUT, with the error on screen.
C11_Witness ==
    /\ paso = "put" /\ pc = "idle"
    /\ MsgErrorActualizar \in Mensajes(ui)
    /\ llamadas = [fetch |-> 1, sha |-> 1, put |-> 1, entrenar |-> 0]
    /\ escritos = 0 /\ fallo_persist

\* C12 (as claimed): after a press of the predict button that got as far as
\* the fetch and ended without a prediction (the fetch, validar_dataframe,
\* entrenar or predecir failed), the session does not await a decision: the
\* decision buttons of an earlier prediction are not shown.
C12_FalloNoEsperaDecision ==
    [][( /\ paso' = "predecir"
         /\ llamadas'.fetch = 1
         /\ MsgPrediccion \notin Mensajes(ui') )
         => ~mostrar_botones']_vars

\* C13: a run that edits inputs, predicts, confirms, opens the correction
\* form or presses nothing issues no GET of the sha and no PUT and leaves the
\* remote file as it is; so do the fetch and the GET of a save; the remote
\* file changes only at the PUT of a save that GitHub accepts (this
\* session's, or the save of another session).
C13_SoloGuardarEscribe ==
    [][/\ paso' \in {"predecir", "confirmar", "corregir", "editar", "rerun"}
            => /\ remote' = remote
               /\ llamadas'.sha = 0 /\ llamadas'.put = 0
               /\ pc' = "idle"
       /\ paso' \in {"guardar", "leer_sha"}
            => remote' = remote /\ llamadas'.put = 0
       /\ remote' # remote
            => \/ paso' = "otra_sesion"
               \/ paso' = "put" /\ GitHubAcepta(remote, sha)]_vars

\* The correction form was opened and edited for a prediction and nothing
\* was written.
C13_Witness ==
    /\ paso = "editar"
    /\ accion = "corregir" /\ mostrar_botones
    /\ y_real \in YsReales
    /\ llamadas = SinLlamadas
    /\ escritos = 0 /\ ~fallo_persist

\* The messages of a fetch that returned no data.
ErroresDescarga == {MsgArchivoVacio, MsgErrorConexion, MsgErrorProcesar}

\* C14: without GITHUB_TOKEN a press of the save button ends the run with no
\* GET of the sha and no PUT, the remote file and mostrar_botones, accion,
\* pred_y, parametros unchanged (accion still "corregir"); unless the fetch
\* already failed, the error written is the missing-token one; and no GET or
\* PUT step is ever taken and no correction is reported as registered.
C14_SinToken ==
    [][~GITHUB_TOKEN
         => /\ paso' \notin {"leer_sha", "put"}
            /\ MsgRegistrada \notin Mensajes(ui')
            /\ (paso' = "guardar" /\ parametros # NoneParams)
                 => /\ pc' = "idle"
                    /\ llamadas'.sha = 0 /\ llamadas'.put = 0
                    /\ remote' = remote
                    /\ UNCHANGED <<mostrar_botones, accion, pred_y, parametros>>
                    /\ accion' = "corregir"
                    /\ Mensajes(ui') \cap ErroresDescarga = {}
                         => MsgSinToken \in Mensajes(ui')]_vars

\* The save button was pressed without a token: the error is on screen and
\* the correction form is still open.
C14_Witness ==
    /\ paso = "guardar" /\ ~GITHUB_TOKEN
    /\ ui = <<MsgCorregir, MsgSinToken>>
    /\ pc = "idle" /\ llamadas = [SinLlamadas EXCEPT !.fetch = 1]
    /\ accion = "corregir" /\ mostrar_botones
    /\ escritos = 0 /\ fallo_persist

\* C15: a prediction is shown only by a run that called entrenar on data it
\* could train on; entrenar is called only by a run whose fetch returned a
\* frame that validar_dataframe accepts; an upload is under way or a request
\* of it is made only when a prediction is stored; a predict run makes no
\* request of the upload and a save trains nothing; and while an upload is
\* under way no other run of the session starts.
C15_OrdenEstricto ==
    [][/\ (paso' = "predecir" /\ MsgPrediccion \in Mensajes(ui'))
            => /\ llamadas'.entrenar = 1
               /\ Len(remote.rows) - NTest(Len(remote.rows)) > 0
       /\ (paso' = "predecir" /\ llamadas'.entrenar = 1)
            => llamadas'.fetch = 1 /\ DatasetValido(remote)
       /\ paso' = "predecir" => llamadas'.sha = 0 /\ llamadas'.put = 0
       /\ paso' \in PasosGuardar => llamadas'.entrenar = 0
       /\ (paso' \in {"leer_sha", "put"} \/ pc' # "idle")
            => pred_y # NoneY /\ parametros # NoneParams
       /\ pc # "idle" => paso' \in {"leer_sha", "put", "otra_sesion"}]_vars

\* A correction was saved for a prediction: fetch, GET and PUT of the save,
\* in that order, after the prediction.
C15_Witness ==
    /\ paso = "put" /\ pc = "idle"
    /\ MsgRegistrada \in Mensajes(ui)
    /\ llamadas = [fetch |-> 1, sha |-> 1, put |-> 1, entrenar |-> 0]
    /\ pred_y \in PredYs /\ parametros # NoneParams
    /\ escritos = 1

\* C16 (as claimed): when a correction is saved whose "angulo_real" widget
\* holds no value the human entered (it still holds the value it was
\* created with), the row written has the angle of the stored parametros.
C16_AnguloOriginal ==
    [][( /\ paso' = "put" /\ remote' # remote
         /\ angulo_real \notin AngulosReales )
         => /\ remote'.rows # << >>
            /\ Ultimo(remote'.rows).angulo = parametros[1]]_vars

\* C17: every run that shows a prediction made one fetch and one call of
\* entrenar itself, and the file stored remotely at that run (with the
\* corrections saved before it) is one the model can be trained on; a run
\* whose fetch returned no data shows no prediction, whatever earlier runs
\* had fetched or trained.
C17_EntrenaEnCadaPeticion ==
    [][paso' = "predecir"
         => /\ MsgPrediccion \in Mensajes(ui')
                 => /\ llamadas'.fetch = 1 /\ llamadas'.entrenar = 1
                    /\ DatasetValido(remote)
                    /\ entrenar([cols |-> remote.cols, rows |-> remote.rows], FALSE)
            /\ ~(remote.existe /\ remote.rows # << >>)
                 => MsgPrediccion \notin Mensajes(ui')
            /\ Mensajes(ui') \cap ErroresDescarga # {}
                 => MsgPrediccion \notin Mensajes(ui')]_vars

\* A prediction was made after a correction had been saved: the run fetched
\* and trained on the file that holds the correction.
C17_Witness ==
    /\ paso = "predecir" /\ MsgPrediccion \in Mensajes(ui)
    /\ llamadas = [SinLlamadas EXCEPT !.fetch = 1, !.entrenar = 1]
    /\ \E i \in 1..Len(remote.rows) : remote.rows[i].y \in YsReales
    /\ escritos = 0

\* C18 (as claimed): an entrenar call that returns failure leaves pipeline,
\* mae and r2 of the object as they were, and on an object no entrenar call
\* has succeeded on, predecir returns no value and writes the
\* model-not-trained error.
C18_SinEntrenarNoPredice ==
    (fn_out.f = "ModeloPredictor" /\ ~fn_out.r.ok)
      => /\ fn_out.r.self = fn_out.antes
         /\ ~fn_in.previo
              => fn_out.pred = [y |-> NoneY, msg |-> MsgNoEntrenado]

\* The rows of the frame whose blob sha is t.
FilasDe(t) == t[3]

\* C19: after a save whose upload succeeded the remote file holds the rows
\* the save's fetch returned, in their order and with their values, followed
\* by one more row, the one built from parametros and the two correction
\* widgets; and its blob sha is not the one it had before the PUT.
C19_ContenidoGuardado ==
    [][(paso' = "put" /\ MsgRegistrada \in Mensajes(ui'))
         => LET leidas == FilasDe(token_lectura)
                nueva == nuevo_dato(parametros, angulo_real, y_real).rows[1]
            IN  /\ remote'.existe
                /\ Len(remote'.rows) = Len(leidas) + 1
                /\ \A i \in 1..Len(leidas) :
                     \A c \in DOMAIN leidas[i] : remote'.rows[i][c] = leidas[i][c]
                /\ \A c \in columnas_necesarias :
                     Ultimo(remote'.rows)[c] = nueva[c]
                /\ BlobSha(remote') # BlobSha(remote)]_vars

\* A correction was saved on top of a fetched file of two rows or more.
C19_Witness ==
    /\ paso = "put" /\ MsgRegistrada \in Mensajes(ui)
    /\ Len(remote.rows) >= 3
    /\ Ultimo(remote.rows).y \in YsReales \cup PredYs
    /\ remote.rows[1].y # Ultimo(remote.rows).y \/ remote.rows[2].y # Ultimo(remote.rows).y

\* C20: a rerun in which no button is pressed, an edit of a correction widget
\* included, leaves mostrar_botones, accion, pred_y and parametros as they
\* are; while the decision buttons are shown they are hidden only by the
\* confirm button or by a save that registered the correction, and pred_y
\* and parametros are replaced only by a new prediction, which shows the
\* buttons again.
C20_EsperaEstable ==
    [][/\ paso' \in {"rerun", "editar"}
            => UNCHANGED <<mostrar_botones, accion, pred_y, parametros>>
       /\ (mostrar_botones /\ ~mostrar_botones')
            => \/ paso' = "confirmar"
               \/ paso' = "put" /\ MsgRegistrada \in Mensajes(ui')
       /\ (mostrar_botones /\ <<pred_y, parametros>>' # <<pred_y, parametros>>)
            => /\ paso' = "predecir"
               /\ MsgPrediccion \in Mensajes(ui')
               /\ mostrar_botones']_vars

\* A rerun without a button while a prediction awaits its decision.
C20_Witness ==
    /\ paso = "rerun"
    /\ mostrar_botones /\ accion = "None"
    /\ pred_y \in PredYs /\ parametros # NoneParams
    /\ ui = << >>

\* C21: between runs, accion = "corregir" only while mostrar_botones holds,
\* mostrar_botones holds only while pred_y and parametros are set, and the
\* save button's parameters-not-found error is never written.
C21_InvarianteSesion ==
    /\ accion = "corregir" => mostrar_botones
    /\ mostrar_botones => (pred_y # NoneY /\ parametros # NoneParams)
    /\ MsgNoParametros \notin Mensajes(ui)

\* The save button was pressed in the correction form and its run got past
\* the check of parametros to the fetch.
C21_Witness ==
    /\ paso = "guardar"
    /\ accion = "corregir" /\ mostrar_botones
    /\ parametros # NoneParams /\ pred_y \in PredYs
    /\ llamadas.fetch = 1

\* The remote file gives a fetch nothing to return: absent, or no rows.
RemotoSinDatos(rem) ==
    ~rem.existe \/ Empty([cols |-> rem.cols, rows |-> rem.rows])

\* C22: the frame a PUT carries has the rows the save's fetch returned, at
\* least one, and one more (two rows or more); a save whose fetch returned
\* no rows ends its run with no GET of the sha and no PUT, the remote file
\* unchanged and the correction form still open; and a remote file that is
\* absent or has no rows is changed by no step.
C22_NuncaSobreBaseVacia ==
    [][/\ paso' = "put"
            => /\ Len(FilasDe(token_lectura)) >= 1
               /\ Len(df_subir.rows) = Len(FilasDe(token_lectura)) + 1
               /\ Len(df_subir.rows) >= 2
       /\ (paso' = "guardar" /\ Mensajes(ui') \cap ErroresDescarga # {})
            => /\ pc' = "idle"
               /\ llamadas'.sha = 0 /\ llamadas'.put = 0
               /\ remote' = remote
               /\ accion' = "corregir" /\ mostrar_botones'
       /\ (paso' = "leer_sha" \/ pc' # "idle") => ~RemotoSinDatos(remote)
       /\ RemotoSinDatos(remote) => remote' = remote]_vars

\* The fetch of a save returned no rows: the run ended without a request of
\* the upload and the correction form is still open.
C22_Witness ==
    /\ paso = "guardar" /\ pc = "idle"
    /\ Mensajes(ui) \cap ErroresDescarga # {}
    /\ llamadas = [SinLlamadas EXCEPT !.fetch = 1]
    /\ accion = "corregir" /\ mostrar_botones
    /\ escritos = 0

====
